---- MODULE Spec2Model ----
(***************************************************************************)
(* A model of ipaddrcheck_functions.c: the lexical format predicates, the  *)
(* semantic classifiers over a parsed address, and the IPv4/IPv6 range     *)
(* validators.  Strings are sequences of one-character strings.  A parsed  *)
(* address (libcidr's CIDR) is a record of protocol, address octets and    *)
(* prefix length.  One run of the model is one predicate call: the call's  *)
(* inputs are drawn from bounded sets and its outcome is recorded.         *)
(***************************************************************************)
EXTENDS Integers, Sequences, FiniteSets, TLC

VARIABLES
    pc,             \* "ready" before the predicate call, "returned" after it,
                    \* "aborted" when the call ended the process instead
    littleEndian,   \* byte order of the host the build runs on
    op,             \* name of the predicate that was called
    arg_str,        \* address_str / range_str: the string argument
    arg_lit,        \* how the string argument was written (its descriptor)
    arg_address,    \* the CIDR* argument (parsed from arg_str by the caller)
    arg_opt,        \* the allow_loopback or prefix_length argument
    arg_verbose,    \* the verbose argument of the range validators
    ret,            \* return value
    diag,           \* number of diagnostics written to stderr by the call
    allocs,         \* values allocated during the call
    frees,          \* values released during the call
    steps,          \* stages of the range validator the call went through
    split           \* what split_range produced (left, right, highest index written)

vars == <<pc, littleEndian, op, arg_str, arg_lit, arg_address, arg_opt, arg_verbose,
          ret, diag, allocs, frees, steps, split>>

----------------------------------------------------------------------------
(* Constants of ipaddrcheck_functions.h *)

RESULT_SUCCESS == 1
RESULT_FAILURE == 0
LOOPBACK_ALLOWED == 1
NO_LOOPBACK == 0
INVALID_PROTO == -1
CIDR_IPV4 == 1
CIDR_IPV6 == 2

----------------------------------------------------------------------------
(* Characters and numbers *)

DigitChars == <<"0", "1", "2", "3", "4", "5", "6", "7", "8", "9">>
HexChars == <<"0", "1", "2", "3", "4", "5", "6", "7", "8", "9",
              "a", "b", "c", "d", "e", "f">>

IsDigit(c) == \E i \in 1..10 : DigitChars[i] = c
IsHexDigit(c) == (\E i \in 1..16 : HexChars[i] = c) \/ c \in {"A", "B", "C", "D", "E", "F"}

DigitVal(c) == (CHOOSE i \in 1..10 : DigitChars[i] = c) - 1
HexVal(c) ==
    CASE c = "A" -> 10 [] c = "B" -> 11 [] c = "C" -> 12
      [] c = "D" -> 13 [] c = "E" -> 14 [] c = "F" -> 15
      [] OTHER -> (CHOOSE i \in 1..16 : HexChars[i] = c) - 1

RECURSIVE Dec(_)
\* printf's %u / %d of a non-negative number: decimal, no leading zeros
Dec(n) == IF n < 10 THEN <<DigitChars[n + 1]>>
          ELSE Append(Dec(n \div 10), DigitChars[(n % 10) + 1])

RECURSIVE DecVal(_)
\* value of a string of decimal digits
DecVal(s) == IF s = <<>> THEN 0
             ELSE 10 * DecVal(SubSeq(s, 1, Len(s) - 1)) + DigitVal(s[Len(s)])

RECURSIVE HexGroupVal(_)
\* value of a string of hexadecimal digits
HexGroupVal(s) == IF s = <<>> THEN 0
                  ELSE 16 * HexGroupVal(SubSeq(s, 1, Len(s) - 1)) + HexVal(s[Len(s)])

RECURSIVE Pow2(_)
Pow2(k) == IF k = 0 THEN 1 ELSE 2 * Pow2(k - 1)

RECURSIVE SplitAt(_, _)
\* the pieces of s between occurrences of the character c
SplitAt(s, c) ==
    IF \A i \in 1..Len(s) : s[i] # c THEN <<s>>
    ELSE LET k == CHOOSE i \in 1..Len(s) : s[i] = c /\ \A j \in 1..(i - 1) : s[j] # c
         IN  <<SubSeq(s, 1, k - 1)>> \o SplitAt(SubSeq(s, k + 1, Len(s)), c)

RECURSIVE Join(_, _)
\* the strings of ss with the character c between them
Join(ss, c) == IF Len(ss) = 0 THEN <<>>
               ELSE IF Len(ss) = 1 THEN ss[1]
               ELSE ss[1] \o <<c>> \o Join(Tail(ss), c)

CountChar(s, c) == Cardinality({i \in 1..Len(s) : s[i] = c})

----------------------------------------------------------------------------
(* regex_matches, one recogniser per pattern the program uses *)

\* PCRE's ^...$ without PCRE_DOLLAR_ENDONLY: $ also matches before a final
\* newline, so a pattern anchored this way is tried on s and on s without it
DollarEnds(s) ==
    {s} \cup (IF Len(s) > 0 /\ s[Len(s)] = "\n" THEN {SubSeq(s, 1, Len(s) - 1)} ELSE {})

\* the octet pattern with one digit fewer, ([1-9]\d{0,1}|0): what the lexical
\* predicates would accept if the repetition count were off by one
OctetTokenTwoDigits(t) ==
    \/ t = <<"0">>
    \/ /\ Len(t) \in 1..2
       /\ t[1] # "0"
       /\ \A i \in 1..Len(t) : IsDigit(t[i])

\* ([1-9]\d{0,2}|0)
OctetToken(t) ==
    \/ t = <<"0">>
    \/ /\ Len(t) \in 1..3
       /\ t[1] # "0"
       /\ \A i \in 1..Len(t) : IsDigit(t[i])

\* (([1-9]\d{0,2}|0)\.){3}([1-9]\d{0,2}|0)
DottedQuad(s) ==
    LET parts == SplitAt(s, ".")
    IN  Len(parts) = 4 /\ \A i \in 1..4 : OctetToken(parts[i])

\* ([1-9]\d*|0)
PrefixToken(t) ==
    \/ t = <<"0">>
    \/ /\ Len(t) >= 1
       /\ t[1] # "0"
       /\ \A i \in 1..Len(t) : IsDigit(t[i])

\* the text before the last slash and the text after it
BeforeSlash(s) ==
    LET k == CHOOSE i \in 1..Len(s) : s[i] = "/" /\ \A j \in (i + 1)..Len(s) : s[j] # "/"
    IN  SubSeq(s, 1, k - 1)
AfterSlash(s) ==
    LET k == CHOOSE i \in 1..Len(s) : s[i] = "/" /\ \A j \in (i + 1)..Len(s) : s[j] # "/"
    IN  SubSeq(s, k + 1, Len(s))
HasSlash(s) == \E i \in 1..Len(s) : s[i] = "/"

Ipv4CidrLanguage(s) ==
    HasSlash(s) /\ DottedQuad(BeforeSlash(s)) /\ PrefixToken(AfterSlash(s))

Ipv6CharsLanguage(s) ==
    Len(s) >= 1 /\ \A i \in 1..Len(s) : IsHexDigit(s[i]) \/ s[i] = ":"

Ipv6CidrLanguage(s) ==
    /\ HasSlash(s)
    /\ Ipv6CharsLanguage(BeforeSlash(s))
    /\ Len(AfterSlash(s)) \in 1..3
    /\ \A i \in 1..Len(AfterSlash(s)) : IsDigit(AfterSlash(s)[i])

Bool2Result(b) == IF b THEN RESULT_SUCCESS ELSE RESULT_FAILURE

\* ".*(::).*\\1", unanchored; the dot does not match a newline
duplicate_double_colons(address_str) ==
    Bool2Result(\E i, j \in 1..Len(address_str) :
        /\ i + 1 <= Len(address_str) /\ j + 1 <= Len(address_str)
        /\ j >= i + 2
        /\ address_str[i] = ":" /\ address_str[i + 1] = ":"
        /\ address_str[j] = ":" /\ address_str[j + 1] = ":"
        /\ \A k \in (i + 2)..(j - 1) : address_str[k] # "\n")

is_ipv4_cidr(address_str) == Bool2Result(\E t \in DollarEnds(address_str) : Ipv4CidrLanguage(t))

is_ipv4_single(address_str) == Bool2Result(\E t \in DollarEnds(address_str) : DottedQuad(t))

is_ipv6_cidr(address_str) == Bool2Result(\E t \in DollarEnds(address_str) : Ipv6CidrLanguage(t))

is_ipv6_single(address_str) == Bool2Result(\E t \in DollarEnds(address_str) : Ipv6CharsLanguage(t))

is_any_cidr(address_str) ==
    IF is_ipv4_cidr(address_str) = RESULT_SUCCESS \/ is_ipv6_cidr(address_str) = RESULT_SUCCESS
    THEN RESULT_SUCCESS ELSE RESULT_FAILURE

is_any_single(address_str) ==
    IF is_ipv4_single(address_str) = RESULT_SUCCESS \/ is_ipv6_single(address_str) = RESULT_SUCCESS
    THEN RESULT_SUCCESS ELSE RESULT_FAILURE

----------------------------------------------------------------------------
(* libcidr: the parsed address and the operations the program calls on it.    *)
(* A CIDR is its protocol, the octets of the address (4 or 16, first octet    *)
(* most significant) and the prefix length of its mask.  The parser is given  *)
(* for the strict textual forms only (decimal dotted quad, RFC 4291 groups    *)
(* with at most one "::", an optional decimal /prefix); any other text is     *)
(* reported as unparseable.                                                   *)

NULL == [proto |-> INVALID_PROTO, addr |-> <<>>, pflen |-> 0]

\* a.b.c.d with every octet at most 255, else <<>>
ParseV4Octets(a) ==
    IF DottedQuad(a) /\ \A i \in 1..4 : DecVal(SplitAt(a, ".")[i]) <= 255
    THEN [i \in 1..4 |-> DecVal(SplitAt(a, ".")[i])]
    ELSE <<>>

HexGroup(g) == Len(g) \in 1..4 /\ \A i \in 1..Len(g) : IsHexDigit(g[i])

\* the positions where "::" starts
DoubleColons(a) == {i \in 1..(Len(a) - 1) : a[i] = ":" /\ a[i + 1] = ":"}

GroupsOf(part) == IF part = <<>> THEN <<>> ELSE SplitAt(part, ":")

\* the eight 16-bit groups of an IPv6 address text, else <<>>
ParseV6Groups(a) ==
    IF DoubleColons(a) = {}
    THEN LET gs == SplitAt(a, ":")
         IN  IF Len(gs) = 8 /\ \A i \in 1..8 : HexGroup(gs[i])
             THEN [i \in 1..8 |-> HexGroupVal(gs[i])]
             ELSE <<>>
    ELSE IF Cardinality(DoubleColons(a)) = 1
    THEN LET k == CHOOSE i \in DoubleColons(a) : TRUE
             hd == GroupsOf(SubSeq(a, 1, k - 1))
             tl == GroupsOf(SubSeq(a, k + 2, Len(a)))
         IN  IF /\ Len(hd) + Len(tl) <= 7
                /\ \A i \in 1..Len(hd) : HexGroup(hd[i])
                /\ \A i \in 1..Len(tl) : HexGroup(tl[i])
             THEN [i \in 1..8 |->
                      IF i <= Len(hd) THEN HexGroupVal(hd[i])
                      ELSE IF i > 8 - Len(tl) THEN HexGroupVal(tl[i - (8 - Len(tl))])
                      ELSE 0]
             ELSE <<>>
    ELSE <<>>

GroupsToOctets(gs) ==
    [i \in 1..16 |-> IF i % 2 = 1 THEN gs[(i + 1) \div 2] \div 256 ELSE gs[i \div 2] % 256]

\* the /prefix of an address text: its value, or -1 when it is not a number up to max
ParsePflen(p, max) ==
    IF Len(p) \in 1..3 /\ (\A i \in 1..Len(p) : IsDigit(p[i])) /\ DecVal(p) <= max
    THEN DecVal(p) ELSE -1

cidr_from_str(s) ==
    LET a == IF HasSlash(s) THEN BeforeSlash(s) ELSE s
        v6 == \E i \in 1..Len(a) : a[i] = ":"
        max == IF v6 THEN 128 ELSE 32
        pf == IF HasSlash(s) THEN ParsePflen(AfterSlash(s), max) ELSE max
        octs == IF v6
                THEN (IF ParseV6Groups(a) = <<>> THEN <<>> ELSE GroupsToOctets(ParseV6Groups(a)))
                ELSE ParseV4Octets(a)
    IN  IF octs = <<>> \/ pf = -1 THEN NULL
        ELSE [proto |-> IF v6 THEN CIDR_IPV6 ELSE CIDR_IPV4, addr |-> octs, pflen |-> pf]

cidr_get_proto(a) == a.proto

cidr_get_pflen(a) == a.pflen

\* how many bits of octet i (1-based) the mask of a /pflen covers
MaskBits(pflen, i) ==
    IF pflen >= 8 * i THEN 8
    ELSE IF pflen <= 8 * (i - 1) THEN 0
    ELSE pflen - 8 * (i - 1)

\* two values are equal when protocol, address and mask all agree
cidr_equals(one, two) ==
    IF one.proto = two.proto /\ one.addr = two.addr /\ one.pflen = two.pflen THEN 0 ELSE -1

\* the address with the host bits cleared, under the same mask
cidr_addr_network(a) ==
    IF a = NULL THEN NULL
    ELSE [a EXCEPT !.addr = [i \in 1..Len(a.addr) |->
            (a.addr[i] \div Pow2(8 - MaskBits(a.pflen, i))) * Pow2(8 - MaskBits(a.pflen, i))]]

\* the address with the host bits set, under the same mask
cidr_addr_broadcast(a) ==
    IF a = NULL THEN NULL
    ELSE [a EXCEPT !.addr = [i \in 1..Len(a.addr) |->
            (a.addr[i] \div Pow2(8 - MaskBits(a.pflen, i))) * Pow2(8 - MaskBits(a.pflen, i))
            + Pow2(8 - MaskBits(a.pflen, i)) - 1]]

\* 0 when little lies wholly inside big: same protocol, little's prefix not
\* shorter than big's, and equal on every bit of big's prefix
cidr_contains(big, little) ==
    IF big = NULL \/ little = NULL THEN -1
    ELSE IF big.proto # little.proto THEN -1
    ELSE IF little.pflen < big.pflen THEN -1
    ELSE IF \A i \in 1..Len(big.addr) :
                big.addr[i] \div Pow2(8 - MaskBits(big.pflen, i))
                = little.addr[i] \div Pow2(8 - MaskBits(big.pflen, i))
         THEN 0 ELSE -1

\* struct in_addr: s_addr holds the four octets in network byte order; read as
\* a 32-bit number by the host, its octets from most to least significant are
\* addr[1..4] on a big-endian host and addr[4..1] on a little-endian host
cidr_to_inaddr(a, little_endian) ==
    [s_addr |-> IF little_endian THEN [i \in 1..4 |-> a.addr[5 - i]] ELSE a.addr]

\* struct in6_addr: the sixteen octets, first octet first
cidr_to_in6addr(a) == [s6_addr |-> a.addr]

\* x <= y for two unsigned numbers given as octets, most significant first
UnsignedLeq(x, y) ==
    \/ x = y
    \/ \E i \in 1..Len(x) : x[i] < y[i] /\ \A j \in 1..(i - 1) : x[j] = y[j]

----------------------------------------------------------------------------
(* The reserved address blocks of ipaddrcheck_functions.h *)

\* the text of a dotted quad, and of a dotted quad with a prefix length
Text4(o) == Join([i \in 1..4 |-> Dec(o[i])], ".")
Text4Cidr(o, n) == Text4(o) \o <<"/">> \o Dec(n)

IPV4_MULTICAST == Text4Cidr(<<224, 0, 0, 0>>, 4)
IPV4_LOOPBACK == Text4Cidr(<<127, 0, 0, 0>>, 8)
IPV4_UNSPECIFIED == Text4Cidr(<<0, 0, 0, 0>>, 0)
IPV4_THIS == Text4Cidr(<<0, 0, 0, 0>>, 8)
IPV4_LIMITED_BROADCAST == Text4Cidr(<<255, 255, 255, 255>>, 32)
IPV6_MULTICAST == <<"f", "f", "0", "0", ":", ":", "/", "8">>
IPV6_LOOPBACK == <<":", ":", "1", "/", "1", "2", "8">>

----------------------------------------------------------------------------
(* Semantic classifiers.  Each predicate comes with the number of values it  *)
(* allocates (cidr_from_str, cidr_addr_network and cidr_addr_broadcast each  *)
(* return a fresh value); none of the classifiers calls cidr_free.           *)

is_valid_address(address) ==
    IF cidr_get_proto(address) # INVALID_PROTO THEN RESULT_SUCCESS ELSE RESULT_FAILURE

is_ipv4(address) ==
    IF cidr_get_proto(address) = CIDR_IPV4 THEN RESULT_SUCCESS ELSE RESULT_FAILURE

is_ipv6(address) ==
    IF cidr_get_proto(address) = CIDR_IPV6 THEN RESULT_SUCCESS ELSE RESULT_FAILURE

\* is_ipv4_host with the prefix test written > 31 instead of >= 31
is_ipv4_host_above31(address) ==
    IF /\ cidr_get_proto(address) = CIDR_IPV4
       /\ \/ cidr_equals(address, cidr_addr_network(address)) < 0
          \/ cidr_get_pflen(address) > 31
    THEN RESULT_SUCCESS ELSE RESULT_FAILURE

is_ipv4_host(address) ==
    IF /\ cidr_get_proto(address) = CIDR_IPV4
       /\ \/ cidr_equals(address, cidr_addr_network(address)) < 0
          \/ cidr_get_pflen(address) >= 31
    THEN RESULT_SUCCESS ELSE RESULT_FAILURE

is_ipv4_host_allocs(address) == IF cidr_get_proto(address) = CIDR_IPV4 THEN 1 ELSE 0

is_ipv4_net(address) ==
    IF /\ cidr_get_proto(address) = CIDR_IPV4
       /\ cidr_equals(address, cidr_addr_network(address)) = 0
    THEN RESULT_SUCCESS ELSE RESULT_FAILURE

is_ipv4_broadcast(address) ==
    IF /\ cidr_get_proto(address) = CIDR_IPV4
       /\ cidr_equals(address, cidr_addr_broadcast(address)) = 0
       /\ cidr_get_pflen(address) < 31
    THEN RESULT_SUCCESS ELSE RESULT_FAILURE

is_ipv4_broadcast_allocs(address) == IF cidr_get_proto(address) = CIDR_IPV4 THEN 1 ELSE 0

is_ipv4_multicast(address) ==
    IF /\ cidr_get_proto(address) = CIDR_IPV4
       /\ cidr_contains(cidr_from_str(IPV4_MULTICAST), address) = 0
    THEN RESULT_SUCCESS ELSE RESULT_FAILURE

is_ipv4_multicast_allocs(address) == IF cidr_get_proto(address) = CIDR_IPV4 THEN 1 ELSE 0

is_ipv4_loopback(address) ==
    IF /\ cidr_get_proto(address) = CIDR_IPV4
       /\ cidr_contains(cidr_from_str(IPV4_LOOPBACK), address) = 0
    THEN RESULT_SUCCESS ELSE RESULT_FAILURE

is_ipv4_loopback_allocs(address) == IF cidr_get_proto(address) = CIDR_IPV4 THEN 1 ELSE 0

is_ipv6_host(address) ==
    IF /\ cidr_get_proto(address) = CIDR_IPV6
       /\ \/ cidr_equals(address, cidr_addr_network(address)) < 0
          \/ cidr_get_pflen(address) >= 127
    THEN RESULT_SUCCESS ELSE RESULT_FAILURE

is_ipv6_host_allocs(address) == IF cidr_get_proto(address) = CIDR_IPV6 THEN 1 ELSE 0

is_ipv6_net(address) ==
    IF /\ cidr_get_proto(address) = CIDR_IPV6
       /\ cidr_equals(address, cidr_addr_network(address)) = 0
    THEN RESULT_SUCCESS ELSE RESULT_FAILURE

is_ipv6_multicast(address) ==
    IF /\ cidr_get_proto(address) = CIDR_IPV6
       /\ cidr_contains(cidr_from_str(IPV6_MULTICAST), address) = 0
    THEN RESULT_SUCCESS ELSE RESULT_FAILURE

is_ipv6_multicast_allocs(address) == IF cidr_get_proto(address) = CIDR_IPV6 THEN 1 ELSE 0

is_any_host(address) ==
    IF is_ipv4_host(address) = RESULT_SUCCESS \/ is_ipv6_host(address) = RESULT_SUCCESS
    THEN RESULT_SUCCESS ELSE RESULT_FAILURE

\* is_ipv6_host is only called when is_ipv4_host did not succeed
is_any_host_allocs(address) ==
    is_ipv4_host_allocs(address)
    + (IF is_ipv4_host(address) = RESULT_SUCCESS THEN 0 ELSE is_ipv6_host_allocs(address))

is_any_net(address) ==
    IF is_ipv4_net(address) = RESULT_SUCCESS \/ is_ipv6_net(address) = RESULT_SUCCESS
    THEN RESULT_SUCCESS ELSE RESULT_FAILURE

\* the conjuncts of is_valid_intf_address in the order the && chain evaluates
\* them, each with the number of values evaluating it allocates
IntfConditions(address, address_str, allow_loopback) ==
    << [ok |-> is_ipv4_broadcast(address) = RESULT_FAILURE,
        n  |-> is_ipv4_broadcast_allocs(address)],
       [ok |-> is_ipv4_multicast(address) = RESULT_FAILURE,
        n  |-> is_ipv4_multicast_allocs(address)],
       [ok |-> is_ipv6_multicast(address) = RESULT_FAILURE,
        n  |-> is_ipv6_multicast_allocs(address)],
       [ok |-> is_ipv4_loopback(address) = RESULT_FAILURE \/ allow_loopback = LOOPBACK_ALLOWED,
        n  |-> is_ipv4_loopback_allocs(address)],
       [ok |-> cidr_equals(address, cidr_from_str(IPV6_LOOPBACK)) # 0, n |-> 1],
       [ok |-> cidr_equals(address, cidr_from_str(IPV4_UNSPECIFIED)) # 0, n |-> 1],
       [ok |-> cidr_contains(cidr_from_str(IPV4_THIS), address) # 0, n |-> 1],
       [ok |-> cidr_equals(address, cidr_from_str(IPV4_LIMITED_BROADCAST)) # 0, n |-> 1],
       [ok |-> is_any_host(address) = RESULT_SUCCESS, n |-> is_any_host_allocs(address)],
       [ok |-> is_any_cidr(address_str) = RESULT_SUCCESS, n |-> 0] >>

\* is_valid_intf_address with the literal-format condition widened to
\* is_any_cidr or is_any_single
is_valid_intf_address_any_format(address, address_str, allow_loopback) ==
    IF /\ \A i \in 1..9 : IntfConditions(address, address_str, allow_loopback)[i].ok
       /\ \/ is_any_cidr(address_str) = RESULT_SUCCESS
          \/ is_any_single(address_str) = RESULT_SUCCESS
    THEN RESULT_SUCCESS ELSE RESULT_FAILURE

is_valid_intf_address(address, address_str, allow_loopback) ==
    IF \A i \in 1..10 : IntfConditions(address, address_str, allow_loopback)[i].ok
    THEN RESULT_SUCCESS ELSE RESULT_FAILURE

RECURSIVE ShortCircuitAllocs(_, _)
\* allocations of an && chain from conjunct i on: evaluation stops at the first false one
ShortCircuitAllocs(conds, i) ==
    IF i > Len(conds) THEN 0
    ELSE conds[i].n + (IF conds[i].ok THEN ShortCircuitAllocs(conds, i + 1) ELSE 0)

is_valid_intf_address_allocs(address, address_str, allow_loopback) ==
    ShortCircuitAllocs(IntfConditions(address, address_str, allow_loopback), 1)

----------------------------------------------------------------------------
(* Range validation *)

NUL == "NUL"

\* ptr[index] = c on a buffer whose cells 0..Len-1 have been written
WriteAt(buf, index, c) ==
    IF index < Len(buf) THEN [buf EXCEPT ![index + 1] = c] ELSE Append(buf, c)

\* the C string a buffer holds: the characters before its first terminator.
\* split_range terminates both buffers whenever the string has a hyphen; a
\* buffer it never wrote is read as the empty string here.
CString(buf) ==
    IF \E i \in 1..Len(buf) : buf[i] = NUL
    THEN SubSeq(buf, 1, (CHOOSE i \in 1..Len(buf) :
                            buf[i] = NUL /\ \A j \in 1..(i - 1) : buf[j] # NUL) - 1)
    ELSE <<>>

RECURSIVE SplitLoop(_, _, _)
\* the while loop of split_range from position pos (0-based) on; st holds the
\* two buffers, the buffer ptr points to, index, and the highest index
\* written in each buffer
SplitLoop(range_str, pos, st) ==
    LET write(c) ==
            IF st.ptr = "left"
            THEN [st EXCEPT !.left = WriteAt(st.left, st.index, c),
                            !.hiLeft = IF st.index > st.hiLeft THEN st.index ELSE st.hiLeft]
            ELSE [st EXCEPT !.right = WriteAt(st.right, st.index, c),
                            !.hiRight = IF st.index > st.hiRight THEN st.index ELSE st.hiRight]
    IN  IF st.index >= 0 /\ pos < Len(range_str)   \* index never goes below 0
        THEN IF range_str[pos + 1] = "-"
             THEN SplitLoop(range_str, pos + 1, [write(NUL) EXCEPT !.ptr = "right", !.index = 0])
             ELSE SplitLoop(range_str, pos + 1,
                            [write(range_str[pos + 1]) EXCEPT !.index = st.index + 1])
        ELSE write(NUL)

split_range(range_str) ==
    SplitLoop(range_str, 0,
              [left |-> <<>>, right |-> <<>>, ptr |-> "left", index |-> 0,
               hiLeft |-> -1, hiRight |-> -1])

\* char left[16], right[16] in is_ipv4_range; char left[40], right[40] in
\* is_ipv6_range
Ipv4BufSize == 16
Ipv6BufSize == 40

\* split_range wrote at an index that is not inside a buffer of this size
SplitOverflows(sp, size) == sp.hiLeft >= size \/ sp.hiRight >= size

NoSplit == [left |-> <<>>, right |-> <<>>, ptr |-> "none", index |-> 0,
            hiLeft |-> -1, hiRight |-> -1]

RECURSIVE CompareLoop(_, _, _)
CompareLoop(left, right, i) ==
    IF i < 16
    THEN IF left.s6_addr[i + 1] < right.s6_addr[i + 1] THEN -1
         ELSE IF left.s6_addr[i + 1] > right.s6_addr[i + 1] THEN 1
         ELSE CompareLoop(left, right, i + 1)
    ELSE 0

compare_ipv6(left, right) == CompareLoop(left, right, 0)

\* the gate pattern with the hyphen inside the character classes,
\* [0-9\.\-]+\-[0-9\.\-]+: it lets strings with several hyphens through
Ipv4RangeLanguageHyphenInClass(s) ==
    /\ \A i \in 1..Len(s) : IsDigit(s[i]) \/ s[i] = "." \/ s[i] = "-"
    /\ \E i \in 2..(Len(s) - 1) : s[i] = "-"

\* [0-9\.]+\-[0-9\.]+
Ipv4RangeLanguage(s) ==
    LET parts == SplitAt(s, "-")
    IN  /\ Len(parts) = 2
        /\ \A k \in 1..2 :
              Len(parts[k]) >= 1 /\ \A i \in 1..Len(parts[k]) : IsDigit(parts[k][i]) \/ parts[k][i] = "."

\* [0-9a-fA-F:]+\-[0-9a-fA-F:]+
Ipv6RangeLanguage(s) ==
    LET parts == SplitAt(s, "-")
    IN  Len(parts) = 2 /\ \A k \in 1..2 : Ipv6CharsLanguage(parts[k])

Ipv4RangeGate(range_str) == Bool2Result(\E t \in DollarEnds(range_str) : Ipv4RangeLanguage(t))

Ipv6RangeGate(range_str) == Bool2Result(\E t \in DollarEnds(range_str) : Ipv6RangeLanguage(t))

Live(a) == IF a = NULL THEN 0 ELSE 1

\* the outcome of a range call: return value, diagnostics written, stages
\* passed, values allocated and freed, and the split
Outcome(r, d, st, a, f, sp) ==
    [result |-> r, diag |-> d, steps |-> st, allocs |-> a, frees |-> f, split |-> sp]

\* a diagnostic written without looking at verbose
FprintfUnguarded(verbose) == 1

\* if( verbose ) fprintf(stderr, ...): the number of diagnostics written
Fprintf(verbose) == IF verbose # 0 THEN 1 ELSE 0

is_ipv4_range(range_str, prefix_length, verbose, little_endian) ==
    LET regex_check_res == Ipv4RangeGate(range_str)
        sp == split_range(range_str)
        left == CString(sp.left)
        right == CString(sp.right)
        left_addr == cidr_from_str(left)
        right_addr == cidr_from_str(right)
        left_in_addr == cidr_to_inaddr(left_addr, little_endian)
        right_in_addr == cidr_to_inaddr(right_addr, little_endian)
        left_pref_str == left \o <<"/">> \o Dec(prefix_length)
        left_addr_with_pref == cidr_from_str(left_pref_str)
        left_net == cidr_addr_network(left_addr_with_pref)
        parsed == Live(left_addr) + Live(right_addr)
    IN  IF regex_check_res = 0
        THEN Outcome(RESULT_FAILURE, Fprintf(verbose), <<"gate">>, 0, 0, NoSplit)
        ELSE IF ~(is_ipv4_single(left) # 0 /\ is_valid_address(left_addr) # 0)
        THEN Outcome(RESULT_FAILURE, Fprintf(verbose), <<"gate", "split", "left">>,
                     parsed, parsed, sp)
        ELSE IF ~(is_ipv4_single(right) # 0 /\ is_valid_address(right_addr) # 0)
        THEN Outcome(RESULT_FAILURE, Fprintf(verbose), <<"gate", "split", "left", "right">>,
                     parsed, parsed, sp)
        ELSE IF UnsignedLeq(left_in_addr.s_addr, right_in_addr.s_addr)
        THEN IF prefix_length > 0
             THEN Outcome(IF cidr_contains(left_net, right_addr) = 0
                          THEN RESULT_SUCCESS ELSE RESULT_FAILURE,
                          0, <<"gate", "split", "left", "right", "order", "contain">>,
                          parsed + 2 + Live(left_addr_with_pref) + Live(left_net),
                          parsed + Live(left_addr_with_pref) + Live(left_net), sp)
             ELSE Outcome(RESULT_SUCCESS, 0, <<"gate", "split", "left", "right", "order">>,
                          parsed + 2, parsed, sp)
        ELSE Outcome(RESULT_FAILURE, Fprintf(verbose),
                     <<"gate", "split", "left", "right", "order">>, parsed + 2, parsed, sp)

is_ipv6_range(range_str, prefix_length, verbose) ==
    LET regex_check_res == Ipv6RangeGate(range_str)
        sp == split_range(range_str)
        left == CString(sp.left)
        right == CString(sp.right)
        left_addr == cidr_from_str(left)
        right_addr == cidr_from_str(right)
        left_in6_addr == cidr_to_in6addr(left_addr)
        right_in6_addr == cidr_to_in6addr(right_addr)
        left_pref_str == left \o <<"/">> \o Dec(prefix_length)
        left_addr_with_pref == cidr_from_str(left_pref_str)
        left_net == cidr_addr_network(left_addr_with_pref)
        parsed == Live(left_addr) + Live(right_addr)
    IN  IF regex_check_res = 0
        THEN Outcome(RESULT_FAILURE, Fprintf(verbose), <<"gate">>, 0, 0, NoSplit)
        ELSE IF ~(/\ is_ipv6_single(left) # 0
                  /\ is_valid_address(left_addr) # 0
                  /\ duplicate_double_colons(left) = 0)
        THEN Outcome(RESULT_FAILURE, Fprintf(verbose), <<"gate", "split", "left">>,
                     parsed, parsed, sp)
        ELSE IF ~(/\ is_ipv6_single(right) # 0
                  /\ is_valid_address(right_addr) # 0
                  /\ duplicate_double_colons(right) = 0)
        THEN Outcome(RESULT_FAILURE, Fprintf(verbose), <<"gate", "split", "left", "right">>,
                     parsed, parsed, sp)
        ELSE IF compare_ipv6(left_in6_addr, right_in6_addr) <= 0
        THEN IF prefix_length > 0
             THEN Outcome(IF cidr_contains(left_net, right_addr) = 0
                          THEN RESULT_SUCCESS ELSE RESULT_FAILURE,
                          0, <<"gate", "split", "left", "right", "order", "contain">>,
                          parsed + 2 + Live(left_addr_with_pref) + Live(left_net),
                          parsed + Live(left_addr_with_pref) + Live(left_net), sp)
             ELSE Outcome(RESULT_SUCCESS, 0, <<"gate", "split", "left", "right", "order">>,
                          parsed + 2, parsed, sp)
        ELSE Outcome(RESULT_FAILURE, Fprintf(verbose),
                     <<"gate", "split", "left", "right", "order">>, parsed + 2, parsed, sp)

----------------------------------------------------------------------------
(* The inputs the calls are tried on.  An input is kept with its descriptor: *)
(* the numbers it was written from, so that a property can speak of "the     *)
(* address 192.0.2.1 with prefix 24" without reading the text back.          *)

MaxPrefixTried == 33   \* IPv4 prefix lengths 0..MaxPrefixTried are written
MaxColonLen == 6       \* longest string handed to duplicate_double_colons
MaxSegments == 3       \* most hyphen-separated segments in a range string
MaxOverrun == 1        \* range endpoints are up to this much longer than a buffer holds

\* marks a literal written without a /prefix
NoPrefix == 0 - 1

V4(o, pf, lz) == [kind |-> "v4", oct |-> o, pf |-> pf, lz |-> lz, text |-> <<>>]
Txt(k, s, pf) == [kind |-> k, oct |-> <<>>, pf |-> pf, lz |-> FALSE, text |-> s]

PrefixText(pf) == IF pf = NoPrefix THEN <<>> ELSE <<"/">> \o Dec(pf)

\* the string a descriptor stands for; lz writes a leading zero before the first octet
TextOf(d) ==
    IF d.kind = "v4"
    THEN (IF d.lz THEN <<"0">> ELSE <<>>) \o Text4(d.oct) \o PrefixText(d.pf)
    ELSE d.text \o PrefixText(d.pf)

RECURSIVE Repeat(_, _)
\* the character c written n times
Repeat(c, n) == IF n = 0 THEN <<>> ELSE Append(Repeat(c, n - 1), c)

V6Any == <<":", ":">>
V6Loopback == <<":", ":", "1">>
V6Doc0 == <<"2", "0", "0", "1", ":", "d", "b", "8", ":", ":">>
V6Doc1 == <<"2", "0", "0", "1", ":", "d", "b", "8", ":", ":", "1">>
V6Doc10 == <<"2", "0", "0", "1", ":", "d", "b", "8", ":", ":", "1", "0">>
V6DocOther == <<"2", "0", "0", "1", ":", "d", "b", "8", ":", "1", ":", ":", "1">>
V6Mcast == <<"f", "f", "0", "2", ":", ":", "1">>
V6Full == <<"1", ":", "2", ":", "3", ":", "4", ":", "5", ":", "6", ":", "7", ":", "8">>
V6TwoGaps == <<"1", ":", ":", "2", ":", ":", "3">>
V6LongGroup == <<"1", "2", "3", "4", "5", ":", ":">>

\* strings for the lexical predicates
FormatLits ==
    {V4(<<a, b, b, d>>, pf, lz) :
        a \in {0, 7, 10, 255, 256, 1000}, b \in {0, 199}, d \in {0, 99, 255},
        pf \in {NoPrefix} \cup 0..MaxPrefixTried, lz \in BOOLEAN}
    \cup {Txt("v6", s, pf) : s \in {V6Any, V6Doc1, V6Full}, pf \in {NoPrefix, 0, 64, 128}}
    \cup {Txt("raw", s, NoPrefix) : s \in {<<>>, <<"1", ".", "2", ".", "3">>,
                                        <<"1", ".", "2", ".", "3", ".", "4", "\n">>}}

RECURSIVE StringsOver(_, _)
\* every string over the alphabet of length at most n
StringsOver(alphabet, n) ==
    IF n = 0 THEN {<<>>}
    ELSE LET shorter == StringsOver(alphabet, n - 1)
         IN  shorter \cup {Append(s, c) : s \in shorter, c \in alphabet}

ColonStrings == StringsOver({":", "a", "\n"}, MaxColonLen)

\* address literals for the semantic classifiers
AddrLits ==
    {V4(o, pf, FALSE) :
        o \in {<<0, 0, 0, 0>>, <<0, 0, 0, 1>>, <<1, 0, 0, 2>>, <<10, 0, 0, 0>>,
               <<127, 0, 0, 1>>, <<127, 255, 255, 255>>, <<192, 0, 2, 0>>, <<192, 0, 2, 1>>,
               <<192, 0, 2, 254>>, <<192, 0, 2, 255>>, <<224, 0, 0, 1>>,
               <<239, 255, 255, 255>>, <<255, 255, 255, 255>>},
        pf \in {NoPrefix} \cup 0..MaxPrefixTried}
    \cup {Txt("v6", s, pf) :
            s \in {V6Any, V6Loopback, V6Doc0, V6Doc1, V6Mcast, V6Full},
            pf \in {NoPrefix, 0, 7, 8, 64, 126, 127, 128}}

\* endpoints of IPv4 ranges: addresses, a dotted quad that is no address, and
\* texts that are not dotted quads
Ends4 ==
    {Txt("raw", Repeat("1", n), NoPrefix) : n \in (Ipv4BufSize - 1)..(Ipv4BufSize + MaxOverrun - 1)}
    \cup
    {V4(o, NoPrefix, FALSE) :
        o \in {<<0, 0, 0, 0>>, <<1, 0, 0, 2>>, <<2, 0, 0, 1>>, <<9, 255, 255, 255>>,
               <<10, 0, 0, 0>>, <<192, 0, 2, 1>>, <<192, 0, 2, 10>>, <<192, 0, 3, 10>>,
               <<255, 255, 255, 255>>, <<256, 0, 0, 1>>}}
    \cup {V4(<<1, 0, 0, 2>>, NoPrefix, TRUE)}
    \cup {Txt("raw", s, NoPrefix) : s \in {<<>>, <<"1", ".", "2", ".", "3">>,
                                        <<"2", ".", "0", ".", "0", ".", "1", "\n">>}}

\* endpoints of IPv6 ranges
Ends6 ==
    {Txt("raw", Repeat("a", n), NoPrefix) : n \in (Ipv6BufSize - 1)..(Ipv6BufSize + MaxOverrun - 1)}
    \cup
    {Txt("v6", s, NoPrefix) :
        s \in {V6Any, V6Loopback, V6Doc1, V6Doc10, V6DocOther, V6Mcast, V6Full,
               V6TwoGaps, V6LongGroup, <<>>}}

\* the endpoints that also appear in strings of three and more segments
Few4 == {V4(o, NoPrefix, FALSE) : o \in {<<1, 0, 0, 2>>, <<2, 0, 0, 1>>}}
Few6 == {Txt("v6", s, NoPrefix) : s \in {V6Loopback, V6Doc1}}

RECURSIVE Tuples(_, _)
\* the sequences of n elements of S
Tuples(S, n) ==
    IF n = 0 THEN {<<>>} ELSE {Append(t, x) : t \in Tuples(S, n - 1), x \in S}

\* range descriptors: one segment (no hyphen), two segments, and up to
\* MaxSegments segments
RangeLits(ends, few) ==
    {[kind |-> "range", ends |-> e] :
        e \in Tuples(ends, 1) \cup Tuples(ends, 2)
              \cup UNION {Tuples(few, n) : n \in 3..MaxSegments}}

RangeLits4 == RangeLits(Ends4, Few4)
RangeLits6 == RangeLits(Ends6, Few6)

RangeText(d) == Join([i \in 1..Len(d.ends) |-> TextOf(d.ends[i])], "-")

Verbosities == {0, 1, 2}
PrefixLengths4 == {-1, 0, 1, 8, 24, 31, 32, 33}
PrefixLengths6 == {-1, 0, 1, 64, 127, 128, 129}

----------------------------------------------------------------------------
(* The state machine: one predicate call per run *)

NoLit == Txt("none", <<>>, NoPrefix)

Init ==
    /\ pc = "ready"
    /\ littleEndian \in BOOLEAN
    /\ op = "none"
    /\ arg_str = <<>>
    /\ arg_lit = NoLit
    /\ arg_address = NULL
    /\ arg_opt = 0
    /\ arg_verbose = 0
    /\ ret = RESULT_FAILURE
    /\ diag = 0
    /\ allocs = 0
    /\ frees = 0
    /\ steps = <<>>
    /\ split = NoSplit

\* a call of a predicate over a string
StringCall(name, d, s, r) ==
    /\ pc' = "returned"
    /\ op' = name
    /\ arg_str' = s
    /\ arg_lit' = d
    /\ ret' = r
    /\ UNCHANGED <<littleEndian, arg_address, arg_opt, arg_verbose, diag, allocs, frees,
                   steps, split>>

\* a call of a predicate over a parsed address; the caller has parsed the
\* literal and calls the classifiers only on an address that parsed
AddressCall(name, d, allow, r, a) ==
    /\ cidr_from_str(TextOf(d)) # NULL
    /\ pc' = "returned"
    /\ op' = name
    /\ arg_str' = TextOf(d)
    /\ arg_lit' = d
    /\ arg_address' = cidr_from_str(TextOf(d))
    /\ arg_opt' = allow
    /\ ret' = r
    /\ allocs' = a
    /\ frees' = 0
    /\ UNCHANGED <<littleEndian, arg_verbose, diag, steps, split>>

\* a call of a range validator whose endpoint buffers hold size characters.
\* A write of split_range outside a buffer is undefined behaviour: the call
\* may go on with what was written and return, or the process is ended when
\* the function is left (the stack check of its epilogue) and the call never
\* returns.
RangeCall(name, d, prefix_length, v, size, out) ==
    /\ \/ pc' = "returned"
       \/ SplitOverflows(out.split, size) /\ pc' = "aborted"
    /\ op' = name
    /\ arg_str' = RangeText(d)
    /\ arg_lit' = d
    /\ arg_opt' = prefix_length
    /\ arg_verbose' = v
    /\ ret' = out.result
    /\ diag' = out.diag
    /\ allocs' = out.allocs
    /\ frees' = out.frees
    /\ steps' = out.steps
    /\ split' = out.split
    /\ UNCHANGED <<littleEndian, arg_address>>

Call_is_ipv4_single ==
    /\ pc = "ready"
    /\ \E d \in FormatLits : StringCall("is_ipv4_single", d, TextOf(d), is_ipv4_single(TextOf(d)))

Call_is_ipv4_cidr ==
    /\ pc = "ready"
    /\ \E d \in FormatLits : StringCall("is_ipv4_cidr", d, TextOf(d), is_ipv4_cidr(TextOf(d)))

Call_duplicate_double_colons ==
    /\ pc = "ready"
    /\ \E s \in ColonStrings :
        StringCall("duplicate_double_colons", Txt("raw", s, NoPrefix), s,
                   duplicate_double_colons(s))

Call_is_ipv4_host ==
    /\ pc = "ready"
    /\ \E d \in AddrLits :
        AddressCall("is_ipv4_host", d, 0, is_ipv4_host(cidr_from_str(TextOf(d))),
                    is_ipv4_host_allocs(cidr_from_str(TextOf(d))))

Call_is_ipv6_host ==
    /\ pc = "ready"
    /\ \E d \in AddrLits :
        AddressCall("is_ipv6_host", d, 0, is_ipv6_host(cidr_from_str(TextOf(d))),
                    is_ipv6_host_allocs(cidr_from_str(TextOf(d))))

Call_is_ipv4_multicast ==
    /\ pc = "ready"
    /\ \E d \in AddrLits :
        AddressCall("is_ipv4_multicast", d, 0, is_ipv4_multicast(cidr_from_str(TextOf(d))),
                    is_ipv4_multicast_allocs(cidr_from_str(TextOf(d))))

Call_is_valid_intf_address ==
    /\ pc = "ready"
    /\ \E d \in AddrLits, allow_loopback \in {NO_LOOPBACK, LOOPBACK_ALLOWED} :
        AddressCall("is_valid_intf_address", d, allow_loopback,
                    is_valid_intf_address(cidr_from_str(TextOf(d)), TextOf(d), allow_loopback),
                    is_valid_intf_address_allocs(cidr_from_str(TextOf(d)), TextOf(d),
                                                 allow_loopback))

Call_is_ipv4_range ==
    /\ pc = "ready"
    /\ \E d \in RangeLits4, prefix_length \in PrefixLengths4, v \in Verbosities :
        RangeCall("is_ipv4_range", d, prefix_length, v, Ipv4BufSize,
                  is_ipv4_range(RangeText(d), prefix_length, v, littleEndian))

Call_is_ipv6_range ==
    /\ pc = "ready"
    /\ \E d \in RangeLits6, prefix_length \in PrefixLengths6, v \in Verbosities :
        RangeCall("is_ipv6_range", d, prefix_length, v, Ipv6BufSize,
                  is_ipv6_range(RangeText(d), prefix_length, v))

Next ==
    \/ Call_is_ipv4_single
    \/ Call_is_ipv4_cidr
    \/ Call_duplicate_double_colons
    \/ Call_is_ipv4_host
    \/ Call_is_ipv6_host
    \/ Call_is_ipv4_multicast
    \/ Call_is_valid_intf_address
    \/ Call_is_ipv4_range
    \/ Call_is_ipv6_range

Spec == Init /\ [][Next]_vars

----------------------------------------------------------------------------
(* Properties *)

Returned(name) == pc = "returned" /\ op = name

RangeReturned == pc = "returned" /\ op \in {"is_ipv4_range", "is_ipv6_range"}

\* a descriptor of a dotted quad of four octets in 0..255, no leading zero
CanonicalV4(d) == d.kind = "v4" /\ ~d.lz /\ \A i \in 1..4 : d.oct[i] \in 0..255

\* a descriptor of an IPv4 address given without a prefix
PlainV4Address(d) == CanonicalV4(d) /\ d.pf = NoPrefix

\* C1: for two endpoints that are single IPv4 addresses, is_ipv4_range with
\* prefix_length 0 succeeds exactly when left <= right as 32-bit numbers with
\* the first octet most significant.
C1_OrderIsNumeric ==
    (/\ Returned("is_ipv4_range")
     /\ arg_opt = 0
     /\ Len(arg_lit.ends) = 2
     /\ PlainV4Address(arg_lit.ends[1])
     /\ PlainV4Address(arg_lit.ends[2]))
    => (ret = RESULT_SUCCESS <=> UnsignedLeq(arg_lit.ends[1].oct, arg_lit.ends[2].oct))

\* what an address is, read off its octets
AllZero(a) == \A i \in 1..Len(a.addr) : a.addr[i] = 0
AddrIsV4Multicast(a) == a.proto = CIDR_IPV4 /\ a.addr[1] \in 224..239
AddrIsV6Multicast(a) == a.proto = CIDR_IPV6 /\ a.addr[1] = 255
AddrIsV4Loopback(a) == a.proto = CIDR_IPV4 /\ a.addr[1] = 127
AddrIsV6Loopback(a) ==
    a.proto = CIDR_IPV6 /\ a.addr[16] = 1 /\ \A i \in 1..15 : a.addr[i] = 0
\* every bit after the prefix is one, in a network that has a broadcast address
AddrIsV4Broadcast(a) ==
    /\ a.proto = CIDR_IPV4
    /\ a.pflen <= 30
    /\ \A i \in 1..4 : (a.addr[i] + 1) % Pow2(8 - MaskBits(a.pflen, i)) = 0

\* C2: is_valid_intf_address fails for the IPv4 broadcast address of a
\* network, every multicast address, the IPv4 and IPv6 unspecified addresses
\* and the IPv6 loopback address, whatever allow_loopback and the prefix
\* length are, and for an IPv4 loopback address when loopback is not allowed.
C2_SpecialAddressesRejected ==
    Returned("is_valid_intf_address") =>
        /\ (\/ AddrIsV4Broadcast(arg_address)
            \/ AddrIsV4Multicast(arg_address)
            \/ AddrIsV6Multicast(arg_address)
            \/ AllZero(arg_address)
            \/ AddrIsV6Loopback(arg_address)) => ret = RESULT_FAILURE
        /\ (AddrIsV4Loopback(arg_address) /\ arg_opt # LOOPBACK_ALLOWED) => ret = RESULT_FAILURE

\* the conditions of is_valid_intf_address other than the literal-format one
OtherIntfConditionsHold ==
    \A i \in 1..9 : IntfConditions(arg_address, arg_str, arg_opt)[i].ok

\* C3 (as stated): a literal in CIDR or in single-address format that passes
\* every other condition of is_valid_intf_address is accepted.
C3_AnyFormatAccepted ==
    (/\ Returned("is_valid_intf_address")
     /\ is_any_cidr(arg_str) = RESULT_SUCCESS \/ is_any_single(arg_str) = RESULT_SUCCESS
     /\ OtherIntfConditionsHold)
    => ret = RESULT_SUCCESS

\* C3 (amended): the literal-format condition of is_valid_intf_address is
\* satisfied only by a literal written with a /prefix: such a literal that
\* passes every other condition is accepted, and a literal without a /prefix
\* is rejected even when it passes every other condition.
C3_CidrFormatRequired ==
    Returned("is_valid_intf_address") =>
        /\ (arg_lit.pf # NoPrefix /\ OtherIntfConditionsHold) => ret = RESULT_SUCCESS
        /\ arg_lit.pf = NoPrefix => ret = RESULT_FAILURE

C3_Witness ==
    /\ Returned("is_valid_intf_address")
    /\ arg_lit = V4(<<192, 0, 2, 1>>, NoPrefix, FALSE)
    /\ OtherIntfConditionsHold
    /\ ret = RESULT_FAILURE

\* the endpoints the range call parsed
LeftEnd == cidr_from_str(CString(split.left))
RightEnd == cidr_from_str(CString(split.right))

\* the call went past the ordering check
OrderingPassed ==
    \/ Len(steps) = 6
    \/ Len(steps) = 5 /\ ret = RESULT_SUCCESS

\* r lies in the network of the first p bits of l; there is no such network
\* unless 1 <= p <= the width of the address
InsideNetwork(l, p, r) ==
    /\ p \in 1..(8 * Len(l.addr))
    /\ \A i \in 1..Len(l.addr) :
          l.addr[i] \div Pow2(8 - MaskBits(p, i)) = r.addr[i] \div Pow2(8 - MaskBits(p, i))

\* C4: with valid, correctly ordered endpoints, a nonzero prefix_length
\* (negative and too large values included) makes the range call succeed
\* exactly when the right endpoint lies inside the network of the left
\* endpoint and that prefix length; with prefix_length 0 the call succeeds.
C4_NonzeroPrefixChecksContainment ==
    (/\ RangeReturned
     /\ Len(steps) >= 5
     /\ OrderingPassed
     /\ UnsignedLeq(LeftEnd.addr, RightEnd.addr))
    => IF arg_opt # 0
       THEN ret = RESULT_SUCCESS <=> InsideNetwork(LeftEnd, arg_opt, RightEnd)
       ELSE ret = RESULT_SUCCESS

\* C5: a range call writes no diagnostic when verbose is 0; when verbose is
\* nonzero it writes exactly one if it fails at the gate, at the left
\* endpoint, at the right endpoint or at the ordering check, and none when
\* it succeeds or fails only at the containment check.
C5_DiagnosticPolicy ==
    RangeReturned =>
        /\ arg_verbose = 0 => diag = 0
        /\ (arg_verbose # 0 /\ ret = RESULT_SUCCESS) => diag = 0
        /\ (arg_verbose # 0 /\ ret = RESULT_FAILURE /\ steps[Len(steps)] = "contain") => diag = 0
        /\ (arg_verbose # 0 /\ ret = RESULT_FAILURE
            /\ steps[Len(steps)] \in {"gate", "left", "right", "order"}) => diag = 1

C5_Witness ==
    /\ Returned("is_ipv4_range")
    /\ arg_verbose # 0
    /\ steps[Len(steps)] = "contain"
    /\ ret = RESULT_FAILURE
    /\ diag = 0

\* C6: when a predicate call returns, every value allocated during the call
\* has been released.
C6_AllReleased == pc = "returned" => allocs = frees

\* the address of a v4 descriptor has a bit set after its prefix
HostBitsSet(d) ==
    \E i \in 1..4 : d.oct[i] % Pow2(8 - MaskBits(IF d.pf = NoPrefix THEN 32 ELSE d.pf, i)) # 0

\* C7: is_ipv4_host succeeds exactly when the address is IPv4 and differs
\* from its network address or has a prefix of 31 or more: both addresses of
\* a /31, a /32 and an address without prefix are hosts, the first address of
\* a network with prefix <= 30 is not.
C7_Ipv4HostRule ==
    Returned("is_ipv4_host") =>
        /\ ret = RESULT_SUCCESS <=>
              /\ arg_lit.kind = "v4"
              /\ HostBitsSet(arg_lit) \/ arg_lit.pf \in {NoPrefix, 31, 32}
        /\ (arg_lit.kind = "v4" /\ arg_lit.pf \in {NoPrefix, 31, 32}) => ret = RESULT_SUCCESS
        /\ (arg_lit.kind = "v4" /\ arg_lit.pf \in 0..30 /\ ~HostBitsSet(arg_lit))
              => ret = RESULT_FAILURE

C7_Witness ==
    /\ Returned("is_ipv4_host")
    /\ arg_lit = V4(<<192, 0, 2, 0>>, 31, FALSE)
    /\ ret = RESULT_SUCCESS

\* C8: a dotted quad of octets 0..255 without leading zeros is accepted by
\* is_ipv4_single and rejected by is_ipv4_cidr; with /n appended, n in 0..32,
\* it is accepted by is_ipv4_cidr and rejected by is_ipv4_single.
C8_SingleVersusCidr ==
    (pc = "returned" /\ op \in {"is_ipv4_single", "is_ipv4_cidr"} /\ CanonicalV4(arg_lit)) =>
        /\ arg_lit.pf = NoPrefix =>
              ret = (IF op = "is_ipv4_single" THEN RESULT_SUCCESS ELSE RESULT_FAILURE)
        /\ arg_lit.pf \in 0..32 =>
              ret = (IF op = "is_ipv4_cidr" THEN RESULT_SUCCESS ELSE RESULT_FAILURE)

C8_Witness ==
    /\ Returned("is_ipv4_cidr")
    /\ arg_lit = V4(<<255, 199, 199, 255>>, 32, FALSE)
    /\ ret = RESULT_SUCCESS

\* C9: duplicate_double_colons succeeds exactly when "::" occurs more than
\* once in the string, counting every starting position.
C9_CountsEveryOccurrence ==
    Returned("duplicate_double_colons") =>
        (ret = RESULT_SUCCESS <=> Cardinality(DoubleColons(arg_str)) > 1)

\* C10: a range call runs the format gate first and reaches split_range only
\* for a string with exactly one hyphen; a string with no hyphen or with
\* several is rejected at the gate, before any split.
C10_GateBeforeSplit ==
    RangeReturned =>
        /\ steps[1] = "gate"
        /\ (\E i \in 1..Len(steps) : steps[i] = "split") =>
              steps[2] = "split" /\ CountChar(arg_str, "-") = 1
        /\ CountChar(arg_str, "-") # 1 =>
              steps = <<"gate">> /\ ret = RESULT_FAILURE /\ split = NoSplit

C10_Witness ==
    /\ Returned("is_ipv4_range")
    /\ Len(arg_lit.ends) = 3
    /\ CountChar(arg_str, "-") = 2
    /\ steps = <<"gate">>
    /\ ret = RESULT_FAILURE

\* C11: for every range string that passes the format gate, split_range
\* writes only inside the endpoint buffers of its caller: the highest index
\* it writes stays below 16 in is_ipv4_range and below 40 in is_ipv6_range.
C11_SplitStaysInBuffers ==
    (pc \in {"returned", "aborted"} /\ Len(steps) >= 2) =>
        /\ op = "is_ipv4_range" => ~SplitOverflows(split, Ipv4BufSize)
        /\ op = "is_ipv6_range" => ~SplitOverflows(split, Ipv6BufSize)

====
